---- MODULE Spec2Model ----
(***************************************************************************)
(* qbitun: keeps qBittorrent's listening port equal to the port Gluetun    *)
(* forwards.  The model follows src/src/main.rs: main reads the            *)
(* configuration, builds one HTTP client and then loops forever over       *)
(* sync_ports followed by a sleep.  The two remote services (Gluetun, the  *)
(* port source; qBittorrent, the port sink) are the environment: each HTTP *)
(* call is a request in flight that the peer answers with one of a small   *)
(* set of responses, fails at transport level, or never answers.           *)
(***************************************************************************)
EXTENDS Integers, Sequences, FiniteSets, TLC

(***************************************************************************)
(* Bounds of the model.                                                    *)
(***************************************************************************)
\* ports 0..MaxLowPort and 65535 are the port values the services hold
MaxLowPort == 1
\* INTERVAL_SECONDS is drawn from 0..MaxInterval (or does not parse)
MaxInterval == 2
\* the count of consecutive failed source fetches is capped here
MaxStreak == 2

(***************************************************************************)
(* Program constants.                                                      *)
(***************************************************************************)
\* largest value of the u16 that GluetunPort.port and the sink port hold
U16Max == 65535

\* `port as u16` (main.rs:265): the low 16 bits of the u64
AsU16(n) == n % (U16Max + 1)

\* a port local that holds nothing yet
NoPort == -1

\* Port values the model lets the source forward
Ports == (0..MaxLowPort) \cup {U16Max}

\* listen_port values the sink may hold: qBittorrent stores an integer, so
\* values above the 16-bit range are included
SinkValues == Ports \cup {U16Max + 1 + k : k \in 0..MaxLowPort}

(***************************************************************************)
(* Environment variables read by main, in the order main reads them.       *)
(***************************************************************************)
StartupVars ==
  << [name |-> "QBITTORRENT_URL",      secret |-> FALSE],
     [name |-> "QBITTORRENT_USERNAME", secret |-> FALSE],
     [name |-> "QBITTORRENT_PASSWORD", secret |-> TRUE ],
     [name |-> "GLUETUN_URL",          secret |-> FALSE],
     [name |-> "GLUETUN_API_KEY",      secret |-> TRUE ] >>

VarNames == { StartupVars[i].name : i \in 1..Len(StartupVars) } \cup {"INTERVAL_SECONDS"}

\* what INTERVAL_SECONDS holds: decimal digits of a u64, or text that is no number
IntervalTexts ==
  { [digits |-> TRUE, value |-> n] : n \in 0..MaxInterval }
    \cup { [digits |-> FALSE, value |-> 0] }

VARIABLES
  env,              \* names of the environment variables that are set
  env0,             \* the environment the process was started with
  intervalText,     \* the text of INTERVAL_SECONDS
  mainPc,           \* where main is
  step,             \* index into StartupVars of the next variable main reads
  interval_seconds, \* main's local
  slept,            \* seconds of the current sleep that have elapsed
  sourcePort,       \* the port Gluetun forwards
  sinkPort,         \* the listen_port qBittorrent holds
  sessionValid,     \* qBittorrent holds a live session for this client
  cookie,           \* the client's cookie store holds a session cookie
  passPc,           \* where sync_ports is
  port,             \* sync_ports' local: port from Gluetun
  current_port,     \* sync_ports' local: port from qBittorrent
  srcSeen,          \* the port value in the source response of this pass
  srcResp,          \* the source response of this pass
  sinkSeen,         \* the listen_port value in the sink response of this pass
  loginResp,        \* the login response of this pass
  loginResult,      \* what login_qbittorrent returned in this pass
  prefsStatus,      \* HTTP status of the preferences response of this pass (0: none)
  outcome,          \* how the pass ended (its last log record)
  nLogin, nRead, nWrite,  \* calls sent in this pass
  written,          \* listen_port carried by the setPreferences call
  inFlight,         \* sync_ports calls that have started and not returned
  hung,             \* the peer of the call in flight will never answer
  sigReceived,      \* a shutdown signal was sent to the process
  srcFailStreak,    \* consecutive passes, just before this one, whose source fetch failed
  prevLogins,       \* login calls of the previous pass
  prevReached,      \* the previous pass got a port from the source
  sessFromPrev,     \* the previous pass obtained a session and it has not expired
  reuseCase,        \* this pass reached the sink while sessFromPrev held
  synced,           \* the port an earlier pass wrote to the sink, while the source
                    \* has kept reporting it and nobody else has set the sink
  sinkTouched,      \* somebody else has set the sink since the last pass started
  logged            \* the values in the log records the last program step emitted

vars == << env, env0, intervalText, mainPc, step, interval_seconds, slept,
           sourcePort, sinkPort, sessionValid, cookie,
           passPc, port, current_port, srcSeen, srcResp, sinkSeen, loginResp,
           loginResult, prefsStatus, outcome, nLogin, nRead, nWrite, written, inFlight, hung,
           sigReceived, srcFailStreak, prevLogins, prevReached, sessFromPrev,
           reuseCase, synced, sinkTouched, logged >>

configVars == << env, env0, intervalText, step, interval_seconds >>
remoteVars == << sourcePort, sinkPort, sessionValid, cookie >>
passVars   == << passPc, port, current_port, srcSeen, srcResp, sinkSeen, loginResp,
                 loginResult, prefsStatus, outcome, nLogin, nRead, nWrite, written >>
histVars   == << srcFailStreak, prevLogins, prevReached, sessFromPrev, reuseCase,
                 synced, sinkTouched >>

NoResp == [kind |-> "none"]

Init ==
  /\ env \in SUBSET VarNames
  /\ env0 = env
  /\ intervalText \in IntervalTexts
  /\ mainPc = "config"
  /\ step = 1
  /\ interval_seconds = 0
  /\ slept = 0
  /\ sourcePort \in Ports
  /\ sinkPort \in SinkValues
  /\ sessionValid = FALSE
  /\ cookie = FALSE
  /\ passPc = "idle"
  /\ port = NoPort
  /\ current_port = NoPort
  /\ srcSeen = NoPort
  /\ srcResp = NoResp
  /\ sinkSeen = NoPort
  /\ loginResp = NoResp
  /\ loginResult = "none"
  /\ prefsStatus = 0
  /\ outcome = "none"
  /\ nLogin = 0 /\ nRead = 0 /\ nWrite = 0
  /\ written = NoPort
  /\ inFlight = 0
  /\ hung = FALSE
  /\ sigReceived = FALSE
  /\ srcFailStreak = 0
  /\ prevLogins = 0
  /\ prevReached = FALSE
  /\ sessFromPrev = FALSE
  /\ reuseCase = FALSE
  /\ synced = NoPort
  /\ sinkTouched = FALSE
  /\ logged = {}

(***************************************************************************)
(* Logging.  A log record is modelled by the set of values it carries: the *)
(* fields of the #[instrument] spans it is emitted in and the fields and   *)
(* message arguments of the event itself.                                  *)
(***************************************************************************)
\* the two values held as SecretString
SecretValues == {"qbittorrent_password", "gluetun_api_key"}

\* secrecy's Debug for SecretString prints a placeholder, not the value
DebugOf(arg) == IF arg \in SecretValues THEN "[REDACTED]" ELSE arg

\* #[instrument(skip(...))]: the span records every argument not skipped
InstrumentFields(args, skipped) == { DebugOf(a) : a \in args \ skipped }

\* line 57 and 81: get_secret_from_env and get_env_var record var_name
Span_get_env == InstrumentFields({"var_name"}, {})

\* line 106
Span_sync_ports ==
  InstrumentFields({"client", "qbittorrent_url", "qbittorrent_username",
                    "qbittorrent_password", "gluetun_url", "gluetun_api_key"},
                   {"client", "qbittorrent_password", "gluetun_api_key"})

\* line 181
Span_get_gluetun_port ==
  InstrumentFields({"gluetun_url", "gluetun_api_key"}, {"gluetun_api_key"})

\* line 209
Span_login_qbittorrent ==
  InstrumentFields({"client", "qbittorrent_url", "qbittorrent_username",
                    "qbittorrent_password"}, {"client", "qbittorrent_password"})

\* line 252
Span_get_qbittorrent_port == InstrumentFields({"client", "qbittorrent_url"}, {"client"})

\* line 285
Span_set_qbittorrent_port ==
  InstrumentFields({"client", "qbittorrent_url", "port"}, {"client"})

\* login events that also print the form parameters
LoginEventFields_Params == {"message", "qbittorrent_username", "qbittorrent_password"}

\* lines 222, 231, 234, 237: the events of login_qbittorrent carry a fixed
\* message and nothing else
LoginEventFields == {"message"}

\* lines 65-66 and 86-87: the error event of a failed read names the variable
Log_env_error == Span_get_env \cup {"message", "var_name"}

\* line 187: the debug event of get_gluetun_port, inside sync_ports' span
Log_get_gluetun_port ==
  Span_sync_ports \cup Span_get_gluetun_port \cup {"message", "gluetun_url"}

\* the events of login_qbittorrent, inside sync_ports' span
Log_login_qbittorrent == Span_sync_ports \cup Span_login_qbittorrent \cup LoginEventFields

\* line 259
Log_get_qbittorrent_port == Span_sync_ports \cup Span_get_qbittorrent_port \cup {"message"}

\* line 296
Log_set_qbittorrent_port ==
  Span_sync_ports \cup Span_set_qbittorrent_port \cup {"message", "port"}

\* an event of sync_ports itself: `error = %e` prints the error's Display
\* (for a reqwest error the kind of failure and the request URL), `port`
\* the port
Log_sync_ports(fields) == Span_sync_ports \cup {"message"} \cup fields

(***************************************************************************)
(* Startup: main.rs lines 20-39.                                           *)
(***************************************************************************)
\* a read that takes an unset variable for an empty value
get_env_var_OrDefault(e, name) == [ok |-> TRUE, env |-> e]

\* get_env_var: the value when the variable is set, an error otherwise
get_env_var(e, name) ==
  IF name \in e THEN [ok |-> TRUE, env |-> e] ELSE [ok |-> FALSE, env |-> e]

\* a secret read that leaves the variable in the environment
get_secret_from_env_Keep(e, name) ==
  IF name \in e THEN [ok |-> TRUE, env |-> e] ELSE [ok |-> FALSE, env |-> e]

\* get_secret_from_env: as get_env_var, and the variable is removed on success
get_secret_from_env(e, name) ==
  IF name \in e THEN [ok |-> TRUE, env |-> e \ {name}] ELSE [ok |-> FALSE, env |-> e]

\* main lines 20-24: read the next variable; `?` returns from main on Err
MainReadVar ==
  /\ mainPc = "config"
  /\ step <= Len(StartupVars)
  /\ LET v == StartupVars[step]
         r == IF v.secret THEN get_secret_from_env(env, v.name)
                          ELSE get_env_var(env, v.name)
     IN /\ env' = r.env
        /\ IF r.ok THEN /\ step' = step + 1
                        /\ mainPc' = mainPc
                        /\ logged' = {}
                   ELSE /\ step' = step
                        /\ mainPc' = "exit_err"
                        /\ logged' = Log_env_error
  /\ UNCHANGED << env0, intervalText, interval_seconds, slept, inFlight, hung,
                  sigReceived >>
  /\ UNCHANGED << remoteVars, passVars, histVars >>

\* str::parse::<u64>: only an unsigned integer parses
ParseU64(text) ==
  IF text.digits THEN [ok |-> TRUE, value |-> text.value] ELSE [ok |-> FALSE, value |-> 0]

\* main lines 25-32: INTERVAL_SECONDS must be set and parse as u64
MainReadInterval ==
  /\ mainPc = "config"
  /\ step = Len(StartupVars) + 1
  /\ LET r == get_env_var(env, "INTERVAL_SECONDS")
         p == ParseU64(intervalText)
     IN /\ IF r.ok /\ p.ok
           THEN /\ interval_seconds' = p.value
                /\ mainPc' = "build_client"
           ELSE /\ interval_seconds' = interval_seconds
                /\ mainPc' = "exit_err"
        \* line 87; line 29 (the ParseIntError's Display); line 37
        /\ logged' = IF ~r.ok THEN Log_env_error
                      ELSE IF ~p.ok THEN {"message", "parse_error"}
                      ELSE {"message"}
  /\ UNCHANGED << env, env0, intervalText, step, slept, inFlight, hung, sigReceived >>
  /\ UNCHANGED << remoteVars, passVars, histVars >>

\* main line 39: the client is built (or build() fails and main returns Err)
MainBuildClient ==
  /\ mainPc = "build_client"
  /\ \E built \in BOOLEAN : mainPc' = IF built THEN "loop" ELSE "exit_err"
  /\ UNCHANGED << configVars, slept, inFlight, hung, sigReceived >>
  /\ UNCHANGED << remoteVars, passVars, histVars >>
  /\ UNCHANGED logged

(***************************************************************************)
(* The remote services' answers.  A call ends in a transport error (send() *)
(* returns Err) or in an HTTP response with a status and a body.           *)
(***************************************************************************)
TransportError == [kind |-> "transport"]

\* reqwest StatusCode::is_success: 200..299
is_success(status) == status >= 200 /\ status <= 299

\* Gluetun answers with its forwarded port as JSON {"port": n} or as plain
\* text, with a JSON port outside the u16 range, or with some other body;
\* the status is whatever the control server decides
SourceResponses ==
  { TransportError } \cup
  { [kind |-> "http", status |-> st, shape |-> sh, value |-> v] :
      st \in {200, 401, 403},
      sh \in {"json", "text"},
      v \in {sourcePort, U16Max + 1 + sourcePort} } \cup
  { [kind |-> "http", status |-> st, shape |-> "other", value |-> NoPort] :
      st \in {200, 401, 403} }

\* qBittorrent's answers to auth/login: 200 "Ok." opens a session and sets
\* the cookie, 200 "Fails." is a wrong password, 403 a banned address
LoginResponses ==
  { TransportError } \cup
  { [kind |-> "http", status |-> 200, body |-> b] : b \in {"Ok.", "Fails."} } \cup
  { [kind |-> "http", status |-> st, body |-> ""] : st \in {403, 500} }

\* the request carries a cookie of a session qBittorrent still holds
Authorized == cookie /\ sessionValid

\* qBittorrent's answers to app/preferences: the preferences (with or
\* without listen_port) to an authorized client, 403 to any other
PrefsResponses ==
  { TransportError, [kind |-> "http", status |-> 500, field |-> FALSE, value |-> NoPort] } \cup
  IF Authorized
  THEN { [kind |-> "http", status |-> 200, field |-> TRUE,  value |-> sinkPort],
         [kind |-> "http", status |-> 200, field |-> FALSE, value |-> NoPort] }
  ELSE { [kind |-> "http", status |-> 403, field |-> FALSE, value |-> NoPort] }

\* qBittorrent's answers to app/setPreferences
SetResponses ==
  { TransportError, [kind |-> "http", status |-> 500] } \cup
  IF Authorized THEN { [kind |-> "http", status |-> 200] }
                ELSE { [kind |-> "http", status |-> 403] }

(***************************************************************************)
(* The four remote operations, as functions of the peer's answer.          *)
(***************************************************************************)
Err == [ok |-> FALSE, port |-> NoPort]
Ok(p) == [ok |-> TRUE, port |-> p]

\* a source fetch that falls back to parsing the trimmed body as a number
get_gluetun_port_TextFallback(resp) ==
  IF resp.kind = "transport" THEN Err
  ELSE IF resp.shape \in {"json", "text"} /\ resp.value \in 0..U16Max THEN Ok(resp.value)
  ELSE Err

\* get_gluetun_port: send()? then response.json::<GluetunPort>()?; the
\* status is not looked at; serde accepts only an object whose port is a u16
get_gluetun_port(resp) ==
  IF resp.kind = "transport" THEN Err
  ELSE IF resp.shape = "json" /\ resp.value \in 0..U16Max THEN Ok(resp.value)
  ELSE Err

\* login_qbittorrent: success on any 2xx status, whatever the body
login_qbittorrent(resp) ==
  IF resp.kind = "transport" THEN "TransportError"
  ELSE IF is_success(resp.status) THEN "Ok"
  ELSE IF resp.status = 403 THEN "IpBanned"
  ELSE "AuthFailed"

\* a preferences read that takes a missing listen_port for port 0
get_qbittorrent_port_OrDefault(resp) ==
  IF resp.kind = "transport" THEN Err
  ELSE IF is_success(resp.status)
       THEN IF resp.field /\ resp.value >= 0 THEN Ok(AsU16(resp.value)) ELSE Ok(0)
       ELSE Err

\* get_qbittorrent_port: listen_port of a 2xx response, cast with `as u16`
get_qbittorrent_port(resp) ==
  IF resp.kind = "transport" THEN Err
  ELSE IF is_success(resp.status)
       THEN IF resp.field /\ resp.value >= 0 THEN Ok(AsU16(resp.value)) ELSE Err
       ELSE Err

\* set_qbittorrent_port: Ok on a 2xx status
set_qbittorrent_port(resp) ==
  resp.kind = "http" /\ is_success(resp.status)

(***************************************************************************)
(* sync_ports, main.rs lines 107-164.                                      *)
(***************************************************************************)
CallStates == {"get_gluetun_port", "login_qbittorrent", "get_qbittorrent_port",
               "set_qbittorrent_port"}

\* the pass is running: main awaits it and its peer has not gone silent
PassRuns(at) == mainPc = "await_sync" /\ passPc = at /\ ~hung

\* a pass that skips the login while the cookie store holds a session cookie
AfterGetGluetun_ReuseSession(r) ==
  IF ~r.ok THEN "returned"
  ELSE IF cookie THEN "get_qbittorrent_port" ELSE "login_qbittorrent"

\* line 116-125: Err ends the pass, Ok goes on to the login
AfterGetGluetun(r) == IF r.ok THEN "login_qbittorrent" ELSE "returned"

\* a pass that goes on to the preferences read whatever the login returned
AfterLogin_IgnoreErr(res) == "get_qbittorrent_port"

\* lines 128-140: Err ends the pass, Ok goes on to read the preferences
AfterLogin(res) == IF res = "Ok" THEN "get_qbittorrent_port" ELSE "returned"

\* a comparison that asks for the write whatever the two ports are
NeedsUpdate_Always(cur, p) == TRUE

\* line 152: the port is written when it differs from the sink's
NeedsUpdate(cur, p) == cur # p

\* a pass that logs in again when the preferences read fails
AfterGetPort_Relogin(r, p) ==
  IF ~r.ok THEN "login_qbittorrent"
  ELSE IF NeedsUpdate(r.port, p) THEN "set_qbittorrent_port" ELSE "returned"

\* lines 143-163: Err ends the pass; Ok compares and either writes or ends
AfterGetPort(r, p) ==
  IF r.ok /\ NeedsUpdate(r.port, p) THEN "set_qbittorrent_port" ELSE "returned"

\* a write that carries the port read from the sink
PortToWrite_Current(p, cur) == cur

\* line 153 and 292: the listen_port the write carries
PortToWrite(p, cur) == p

\* a request is counted when the pass moves on to its call
Sent(to, call, n) == IF to = call THEN n + 1 ELSE n

\* the source GET of line 116 is answered
GluetunResponds ==
  /\ PassRuns("get_gluetun_port")
  /\ \E resp \in SourceResponses :
       LET r == get_gluetun_port(resp)
           to == AfterGetGluetun(r)
       IN /\ port' = r.port
          /\ srcSeen' = IF resp.kind = "http" THEN resp.value ELSE NoPort
          /\ srcResp' = resp
          /\ passPc' = to
          /\ nLogin' = Sent(to, "login_qbittorrent", nLogin)
          /\ nRead' = Sent(to, "get_qbittorrent_port", nRead)
          /\ reuseCase' = (to # "returned" /\ sessFromPrev)
          /\ outcome' = IF r.ok THEN outcome ELSE "SourceFailed"
          \* line 118 or 122, then the events of the call that follows
          /\ logged' = Log_sync_ports(IF r.ok THEN {"port"} ELSE {"error"})
                        \cup (IF to = "login_qbittorrent" THEN Log_login_qbittorrent ELSE {})
                        \cup (IF to = "get_qbittorrent_port" THEN Log_get_qbittorrent_port
                                                            ELSE {})
  /\ UNCHANGED << configVars, remoteVars, mainPc, slept, inFlight, hung, sigReceived >>
  /\ UNCHANGED << current_port, sinkSeen, loginResp, loginResult, prefsStatus,
                  nWrite, written >>
  /\ UNCHANGED << srcFailStreak, prevLogins, prevReached, sessFromPrev, synced,
                  sinkTouched >>

\* the login POST of line 223 is answered
LoginResponds ==
  /\ PassRuns("login_qbittorrent")
  /\ \E resp \in LoginResponses :
       LET res == login_qbittorrent(resp)
           to == AfterLogin(res)
           opened == resp.kind = "http" /\ resp.status = 200 /\ resp.body = "Ok."
       IN /\ loginResp' = resp
          /\ loginResult' = res
          /\ sessionValid' = (opened \/ sessionValid)
          /\ cookie' = (opened \/ cookie)
          /\ passPc' = to
          /\ nLogin' = Sent(to, "login_qbittorrent", nLogin)
          /\ nRead' = Sent(to, "get_qbittorrent_port", nRead)
          /\ outcome' = IF res = "Ok" THEN outcome ELSE "AuthFailed"
          \* lines 231-237, then line 136 or 139, then line 259
          /\ logged' = Log_login_qbittorrent
                        \cup Log_sync_ports(IF res = "Ok" THEN {} ELSE {"error"})
                        \cup (IF to = "get_qbittorrent_port" THEN Log_get_qbittorrent_port
                                                            ELSE {})
  /\ UNCHANGED << configVars, sourcePort, sinkPort, mainPc, slept, inFlight, hung, sigReceived >>
  /\ UNCHANGED << port, current_port, srcSeen, srcResp, sinkSeen, prefsStatus, nWrite,
                  written, histVars >>

\* the preferences GET of line 260 is answered; lines 151-163 follow at once
PrefsResponds ==
  /\ PassRuns("get_qbittorrent_port")
  /\ \E resp \in PrefsResponses :
       LET r == get_qbittorrent_port(resp)
           to == AfterGetPort(r, port)
       IN /\ current_port' = r.port
          /\ sinkSeen' = IF resp.kind = "http" /\ resp.field THEN resp.value ELSE NoPort
          /\ prefsStatus' = IF resp.kind = "http" THEN resp.status ELSE 0
          /\ passPc' = to
          /\ nLogin' = Sent(to, "login_qbittorrent", nLogin)
          /\ nRead' = Sent(to, "get_qbittorrent_port", nRead)
          /\ nWrite' = Sent(to, "set_qbittorrent_port", nWrite)
          /\ written' = IF to = "set_qbittorrent_port"
                        THEN PortToWrite(port, r.port) ELSE written
          /\ outcome' = IF ~r.ok THEN "SinkReadFailed"
                        ELSE IF to = "returned" THEN "AlreadyCorrect" ELSE outcome
          \* line 146, or line 296, or line 159
          /\ logged' = IF ~r.ok THEN Log_sync_ports({"error"})
                        ELSE IF to = "set_qbittorrent_port" THEN Log_set_qbittorrent_port
                        ELSE IF to = "login_qbittorrent" THEN Log_login_qbittorrent
                        ELSE Log_sync_ports({"port"})
  /\ UNCHANGED << configVars, remoteVars, mainPc, slept, inFlight, hung, sigReceived >>
  /\ UNCHANGED << port, srcSeen, srcResp, loginResp, loginResult, histVars >>

\* the setPreferences POST of line 297 is answered; on 200 the sink has
\* taken the new listen_port
SetResponds ==
  /\ PassRuns("set_qbittorrent_port")
  /\ \E resp \in SetResponses :
       LET ok == set_qbittorrent_port(resp)
       IN /\ sinkPort' = IF resp.kind = "http" /\ resp.status = 200
                         THEN written ELSE sinkPort
          /\ outcome' = IF ok THEN "Configured" ELSE "SinkWriteFailed"
          \* line 154 or 156
          /\ logged' = Log_sync_ports(IF ok THEN {"port"} ELSE {"error"})
          /\ passPc' = "returned"
  /\ UNCHANGED << configVars, sourcePort, sessionValid, cookie, mainPc, slept,
                  inFlight, hung, sigReceived >>
  /\ UNCHANGED << port, current_port, srcSeen, srcResp, sinkSeen, loginResp, loginResult,
                  prefsStatus, nLogin, nRead, nWrite, written, histVars >>

(***************************************************************************)
(* The scheduler, main.rs lines 41-45.                                     *)
(***************************************************************************)
LoopStates == {"loop", "await_sync", "sleep"}

\* a scheduler that starts the pass as a task of its own and goes to sleep
\* without awaiting it
MainCallSync_Spawn ==
  /\ mainPc = "loop"
  /\ inFlight < 2
  /\ mainPc' = "sleep"
  /\ slept' = 0
  /\ passPc' = "get_gluetun_port"
  /\ inFlight' = inFlight + 1
  /\ UNCHANGED << configVars, remoteVars, hung, sigReceived, histVars >>
  /\ UNCHANGED << port, current_port, srcSeen, srcResp, sinkSeen, loginResp, loginResult,
                  prefsStatus, outcome, nLogin, nRead, nWrite, written >>
  /\ logged' = Log_get_gluetun_port

\* line 42: sync_ports is called; its first request goes out
MainCallSync ==
  /\ mainPc = "loop"
  /\ mainPc' = "await_sync"
  /\ passPc' = "get_gluetun_port"
  /\ inFlight' = inFlight + 1
  /\ sinkTouched' = FALSE
  /\ UNCHANGED << configVars, remoteVars, slept, hung, sigReceived >>
  /\ UNCHANGED << srcFailStreak, prevLogins, prevReached, sessFromPrev, reuseCase,
                  synced >>
  /\ UNCHANGED << port, current_port, srcSeen, srcResp, sinkSeen, loginResp, loginResult,
                  prefsStatus, outcome, nLogin, nRead, nWrite, written >>
  /\ logged' = Log_get_gluetun_port

\* lines 42-44: the awaited sync_ports returns, its locals are dropped and
\* the sleep starts
MainSyncReturned ==
  /\ mainPc = "await_sync"
  /\ passPc = "returned"
  /\ mainPc' = "sleep"
  /\ slept' = 0
  /\ inFlight' = inFlight - 1
  /\ passPc' = "idle"
  /\ port' = NoPort /\ current_port' = NoPort
  /\ srcSeen' = NoPort /\ sinkSeen' = NoPort
  /\ srcResp' = NoResp
  /\ loginResp' = NoResp /\ loginResult' = "none"
  /\ prefsStatus' = 0
  /\ nLogin' = 0 /\ nRead' = 0 /\ nWrite' = 0
  /\ written' = NoPort
  /\ outcome' = outcome
  /\ srcFailStreak' = IF outcome = "SourceFailed"
                      THEN (IF srcFailStreak < MaxStreak THEN srcFailStreak + 1
                                                         ELSE MaxStreak)
                      ELSE 0
  /\ prevLogins' = nLogin
  /\ prevReached' = (port # NoPort)
  /\ sessFromPrev' = (loginResp # NoResp /\ loginResp.kind = "http"
                      /\ loginResp.status = 200 /\ loginResp.body = "Ok."
                      /\ Authorized)
  /\ reuseCase' = FALSE
  /\ synced' = IF outcome = "Configured" /\ sourcePort = port THEN port ELSE synced
  /\ sinkTouched' = sinkTouched
  /\ UNCHANGED << configVars, remoteVars, hung, sigReceived >>
  /\ logged' = {"message", "interval_seconds"}   \* line 43

\* one second of the sleep of line 44 passes
SleepTick ==
  /\ mainPc = "sleep"
  /\ slept < interval_seconds
  /\ slept' = slept + 1
  /\ UNCHANGED << configVars, remoteVars, passVars, histVars, mainPc, inFlight,
                  hung, sigReceived >>
  /\ UNCHANGED logged

\* a sleep that may end before interval_seconds have passed
MainSleepDone_Early ==
  /\ mainPc = "sleep"
  /\ slept <= interval_seconds
  /\ mainPc' = "loop"
  /\ UNCHANGED << configVars, remoteVars, passVars, histVars, slept, inFlight,
                  hung, sigReceived >>
  /\ UNCHANGED logged

\* line 44: the sleep is over once interval_seconds have passed
MainSleepDone ==
  /\ mainPc = "sleep"
  /\ slept = interval_seconds
  /\ mainPc' = "loop"
  /\ UNCHANGED << configVars, remoteVars, passVars, histVars, slept, inFlight,
                  hung, sigReceived >>
  /\ UNCHANGED logged

(***************************************************************************)
(* The environment.                                                        *)
(***************************************************************************)
\* Gluetun's lease is renewed: the forwarded port changes
SourceChanges ==
  /\ mainPc \in LoopStates
  /\ \E p \in Ports \ {sourcePort} : sourcePort' = p
  /\ synced' = NoPort
  /\ UNCHANGED << configVars, sinkPort, sessionValid, cookie, passVars,
                  srcFailStreak, prevLogins, prevReached, sessFromPrev, reuseCase,
                  sinkTouched, mainPc, slept, inFlight, hung, sigReceived >>
  /\ UNCHANGED logged

\* somebody else sets qBittorrent's listen_port, between two passes
SinkChanges ==
  /\ mainPc = "sleep"
  /\ \E v \in SinkValues \ {sinkPort} : sinkPort' = v
  /\ synced' = NoPort
  /\ sinkTouched' = TRUE
  /\ UNCHANGED << configVars, sourcePort, sessionValid, cookie, passVars,
                  srcFailStreak, prevLogins, prevReached, sessFromPrev, reuseCase,
                  mainPc, slept, inFlight, hung, sigReceived >>
  /\ UNCHANGED logged

\* qBittorrent drops the session (timeout, restart)
SessionExpires ==
  /\ mainPc \in LoopStates
  /\ sessionValid
  /\ sessionValid' = FALSE
  /\ sessFromPrev' = FALSE
  /\ UNCHANGED << configVars, sourcePort, sinkPort, cookie, passVars,
                  srcFailStreak, prevLogins, prevReached, reuseCase, synced,
                  sinkTouched, mainPc, slept, inFlight, hung, sigReceived >>
  /\ UNCHANGED logged

\* the peer of the request in flight accepts it and never answers; no
\* request of the program carries a timeout (lines 39, 188)
PeerHangs ==
  /\ mainPc = "await_sync"
  /\ passPc \in CallStates
  /\ ~hung
  /\ hung' = TRUE
  /\ UNCHANGED << configVars, remoteVars, passVars, histVars, mainPc, slept,
                  inFlight, sigReceived >>
  /\ UNCHANGED logged

\* a shutdown signal (SIGTERM, SIGINT) is sent while main is suspended in a
\* network call of the pass or in the sleep.  main installs no handler: the
\* default disposition ends the process at once, except that a process
\* running as PID 1 of its namespace does not get the signal at all
ShutdownSignal ==
  /\ mainPc \in {"await_sync", "sleep"}
  /\ ~sigReceived
  /\ sigReceived' = TRUE
  /\ \E delivered \in BOOLEAN : mainPc' = IF delivered THEN "killed" ELSE mainPc
  /\ UNCHANGED << configVars, remoteVars, passVars, histVars, slept, inFlight, hung >>
  /\ UNCHANGED logged

Next ==
  \/ MainReadVar
  \/ MainReadInterval
  \/ MainBuildClient
  \/ MainCallSync
  \/ GluetunResponds
  \/ LoginResponds
  \/ PrefsResponds
  \/ SetResponds
  \/ MainSyncReturned
  \/ SleepTick
  \/ MainSleepDone
  \/ SourceChanges
  \/ SinkChanges
  \/ SessionExpires
  \/ PeerHangs
  \/ ShutdownSignal

Spec == Init /\ [][Next]_vars

\* The tokio runtime polls main's future whenever it can make progress, the
\* timer advances, and a peer that has not gone silent answers.
FairSpec ==
  /\ Spec
  /\ WF_vars(MainReadVar) /\ WF_vars(MainReadInterval) /\ WF_vars(MainBuildClient)
  /\ WF_vars(MainCallSync) /\ WF_vars(MainSyncReturned)
  /\ WF_vars(SleepTick) /\ WF_vars(MainSleepDone)
  /\ WF_vars(GluetunResponds) /\ WF_vars(LoginResponds)
  /\ WF_vars(PrefsResponds) /\ WF_vars(SetResponds)

(***************************************************************************)
(* Properties.                                                             *)
(***************************************************************************)
\* the pass has compared the two ports it fetched
Compared == passPc \in {"set_qbittorrent_port", "returned"} /\ current_port # NoPort

AllCallsSucceeded ==
  /\ passPc = "returned"
  /\ port # NoPort /\ loginResult = "Ok" /\ current_port # NoPort
  /\ outcome \in {"Configured", "AlreadyCorrect"}

\* C2: when the source reports p, the sink holds q in 0..65535 with q # p and
\* every call of the pass succeeds, the pass issues exactly one write, the
\* write carries p, and the sink's listening port after the pass is p.
C2_OneWriteOfSourcePort ==
  (AllCallsSucceeded /\ sinkSeen \in 0..U16Max /\ sinkSeen # srcSeen)
    => /\ nWrite = 1
       /\ written = srcSeen
       /\ sinkPort = srcSeen
       /\ outcome = "Configured"

\* a pass wrote the source's port over a different port within range
C2_Witness ==
  /\ AllCallsSucceeded /\ outcome = "Configured"
  /\ sinkSeen \in 0..U16Max /\ sinkSeen # srcSeen
  /\ nWrite = 1 /\ written = port /\ sinkPort = port

\* the pass ended in a failure of one of its stages
FailureOutcomes == {"SourceFailed", "AuthFailed", "SinkReadFailed", "SinkWriteFailed"}
PassFailed == passPc = "returned" /\ outcome \in FailureOutcomes

\* C3: once main is in its loop no failed stage ends the process: main leaves
\* the loop only when a signal kills it; a pass that returns, failed or not,
\* is followed by a sleep that starts at zero; the sleep ends only after
\* interval_seconds have passed and leads to the top of the loop; a pass
\* starts only from the top of the loop; and after every failed pass another
\* pass is started, unless a signal kills the process.
C3_FailedPassSleepsThenRetries ==
  /\ [][(mainPc \in LoopStates) => (mainPc' \in LoopStates \cup {"killed"})]_vars
  /\ [][(passPc = "returned" /\ passPc' # "returned")
          => (mainPc' = "sleep" /\ slept' = 0 /\ passPc' = "idle")]_vars
  /\ [][(mainPc = "sleep" /\ mainPc' \notin {"sleep", "killed"})
          => (slept = interval_seconds /\ mainPc' = "loop")]_vars
  /\ [][(passPc # "get_gluetun_port" /\ passPc' = "get_gluetun_port")
          => (mainPc = "loop" /\ passPc = "idle")]_vars
  /\ (PassFailed ~> (passPc = "get_gluetun_port" \/ mainPc = "killed"))

\* the pass before failed at its write, main slept a positive interval to
\* its end, and the next pass is in flight
C3_Witness ==
  /\ outcome = "SinkWriteFailed" /\ prevReached
  /\ interval_seconds > 0 /\ slept = interval_seconds
  /\ mainPc = "await_sync" /\ passPc = "get_gluetun_port"

\* C4 (as claimed): after N >= 1 passes whose source fetch failed, a pass in
\* which the source gives a port and every sink call succeeds ends with the
\* sink's listening port equal to that port.
C4_AsClaimed ==
  (AllCallsSucceeded /\ srcFailStreak >= 1) => sinkPort = port

ReachedSink == passPc \in CallStates \cup {"returned"} /\ port # NoPort

C7_AsClaimed ==
  /\ (loginResp.kind = "http" /\ loginResp.status = 403)
       => (loginResult = "IpBanned" /\ nRead = 0 /\ nWrite = 0)
  /\ (loginResp.kind = "http" /\ is_success(loginResp.status) /\ loginResp.body # "Ok.")
       => (loginResult = "AuthFailed" /\ nRead = 0 /\ nWrite = 0)

\* C8: at most one call of sync_ports is in flight; one is in flight exactly
\* while main awaits it, and none is while main is at the top of the loop or
\* asleep, so the session is touched by one pass at a time.
C8_OnePassInFlight ==
  /\ inFlight \in {0, 1}
  /\ inFlight = 1 <=> passPc # "idle"
  /\ mainPc \in {"loop", "sleep"} => inFlight = 0
  /\ passPc \in CallStates => mainPc \in {"await_sync", "killed"}

\* a second or later pass is in flight, at its login
C8_Witness ==
  /\ inFlight = 1 /\ passPc = "login_qbittorrent" /\ mainPc = "await_sync"
  /\ prevReached

\* C9 (as claimed): once a shutdown signal has been sent, no new pass is
\* started.
C9_AsClaimed ==
  [][sigReceived => ~(passPc # "get_gluetun_port" /\ passPc' = "get_gluetun_port")]_vars

\* C10 (as claimed): a call in flight always ends: while main awaits a pass
\* that is at one of its four calls, a step that ends the call (an answer, a
\* transport error or a timeout) is possible.
C10_AsClaimed ==
  (mainPc = "await_sync" /\ passPc \in CallStates)
    => ENABLED (GluetunResponds \/ LoginResponds \/ PrefsResponds \/ SetResponds)

\* the source answered this pass's GET with an HTTP response
SourceAnswered == srcResp # NoResp /\ srcResp.kind = "http"

RequiredVars == {"GLUETUN_URL", "QBITTORRENT_URL", "QBITTORRENT_USERNAME",
                 "QBITTORRENT_PASSWORD", "INTERVAL_SECONDS"}

\* a required value is missing or the interval is no unsigned integer
ConfigIncomplete == ~(RequiredVars \subseteq env0) \/ ~intervalText.digits

\* nothing of a pass has happened: no call of sync_ports, no request
NoPassYet ==
  /\ passPc = "idle" /\ inFlight = 0
  /\ nLogin = 0 /\ nRead = 0 /\ nWrite = 0
  /\ srcResp = NoResp /\ loginResp = NoResp /\ outcome = "none"

\* C12: when a required configuration value is missing, or the interval
\* does not parse, main never gets past its configuration reads: it is still
\* reading or has returned the error, it has read nothing after the first
\* missing variable, and no pass was started and no request sent.
C12_IncompleteConfigNeverRuns ==
  /\ ConfigIncomplete => (mainPc \in {"config", "exit_err"} /\ NoPassYet)
  /\ \A i \in 1..Len(StartupVars) : i < step => StartupVars[i].name \in env0
  /\ mainPc \in LoopStates \cup {"build_client", "killed"}
       => (VarNames \subseteq env0 /\ intervalText.digits)

\* main has returned the startup error because the sink username, the
\* second value it reads, is missing
C12_Witness ==
  /\ mainPc = "exit_err" /\ step = 2
  /\ "QBITTORRENT_USERNAME" \notin env0 /\ "QBITTORRENT_URL" \in env0
  /\ NoPassYet

\* C13: after a pass has written the source's port p to the sink, and while
\* the source keeps reporting p and nobody else sets the sink, the sink stays
\* at p and no later pass issues a write: a later pass that reads the sink
\* reads p, ends as already correct, and the write of the updating pass
\* stays the only one.
C13_NoWriteOnceSynchronized ==
  synced # NoPort =>
    /\ sinkPort = synced
    /\ nWrite = 0
    /\ port \in {NoPort, synced}
    /\ Compared => /\ current_port = synced /\ port = synced
                   /\ passPc = "returned" /\ outcome = "AlreadyCorrect"

\* a pass after the updating one read the written port back from the sink
\* and returned without a write
C13_Witness ==
  /\ synced # NoPort /\ passPc = "returned" /\ outcome = "AlreadyCorrect"
  /\ nRead = 1 /\ current_port = synced /\ port = synced /\ nWrite = 0

\* the steps a pass may take: each call follows the one before it, and
\* every call may be the last
PassOrder ==
  { <<"idle", "get_gluetun_port">>,
    <<"get_gluetun_port", "login_qbittorrent">>, <<"get_gluetun_port", "returned">>,
    <<"login_qbittorrent", "get_qbittorrent_port">>, <<"login_qbittorrent", "returned">>,
    <<"get_qbittorrent_port", "set_qbittorrent_port">>,
    <<"get_qbittorrent_port", "returned">>,
    <<"set_qbittorrent_port", "returned">>,
    <<"returned", "idle">> }

\* C14: within a pass the calls go out in the order source GET, login,
\* preferences GET, setPreferences POST, each at most once, and the first
\* failure ends the pass: no login without a port from the source, no
\* preferences read without a successful login, no write without a
\* successful preferences read, and a failed stage is followed by nothing.
C14_CallsInOrderUntilFirstFailure ==
  /\ [][passPc' # passPc => << passPc, passPc' >> \in PassOrder]_vars
  /\ [](nLogin \in {0, 1} /\ nRead \in {0, 1} /\ nWrite \in {0, 1})
  /\ [](nLogin = 1 => port # NoPort)
  /\ [](nRead = 1 => (nLogin = 1 /\ loginResult = "Ok"))
  /\ [](nWrite = 1 => (nRead = 1 /\ current_port # NoPort))
  /\ [](outcome = "SourceFailed" /\ passPc = "returned" => nLogin = 0)
  /\ []((loginResult \notin {"none", "Ok"}) => (passPc = "returned" /\ nRead = 0))
  /\ []((nRead = 1 /\ passPc \notin {"get_qbittorrent_port"} /\ current_port = NoPort)
         => (passPc = "returned" /\ nWrite = 0))

\* a pass went through all four calls and returned
C14_Witness ==
  /\ passPc = "returned" /\ nLogin = 1 /\ nRead = 1 /\ nWrite = 1
  /\ outcome \in {"Configured", "SinkWriteFailed"}

\* C15 (as claimed): a source response with status 401 or 403 makes the
\* fetch fail whatever its body holds: no port comes from it and the pass
\* sends nothing to the sink.
C15_AsClaimed ==
  (SourceAnswered /\ srcResp.status \in {401, 403})
    => (port = NoPort /\ nLogin = 0 /\ nRead = 0 /\ nWrite = 0)

\* C16 (as claimed): with every configuration value but the source API key
\* set, startup does not fail at the read of the API key.
C16_AsClaimed ==
  (env0 = VarNames \ {"GLUETUN_API_KEY"} /\ intervalText.digits)
    => ~(mainPc = "exit_err" /\ StartupVars[step].name = "GLUETUN_API_KEY")

\* the names of the secret variables
SecretNames == { StartupVars[i].name : i \in { j \in 1..Len(StartupVars) : StartupVars[j].secret } }

\* C17: a secret variable is gone from the environment in every state after
\* get_secret_from_env has returned it, also when startup fails at a later
\* read and throughout the loop; main reads each variable once, in order,
\* and nothing reads or changes the environment once the loop runs.
C17_SecretsRemovedOnRead ==
  /\ [](\A i \in 1..Len(StartupVars) :
          (StartupVars[i].secret /\ i < step) => StartupVars[i].name \notin env)
  /\ [](mainPc \in LoopStates \cup {"build_client", "killed"}
          => (SecretNames \cap env = {} /\ step = Len(StartupVars) + 1))
  /\ [][step' \in {step, step + 1}]_vars
  /\ [][(mainPc \in LoopStates) => (env' = env /\ step' = step)]_vars

\* the password was set and read, and startup then failed at the next
\* variable: the password is gone from the environment
C17_Witness ==
  /\ mainPc = "exit_err" /\ step = 4
  /\ "QBITTORRENT_PASSWORD" \in env0 /\ "QBITTORRENT_PASSWORD" \notin env

(***************************************************************************)
(* C18: no log record the program emits carries the value of the sink      *)
(* password or of the source API key.                                      *)
(***************************************************************************)
C18_NoSecretInLogs == logged \cap SecretValues = {}

\* a failed login has just been logged, with the request's span fields
C18_Witness ==
  /\ outcome = "AuthFailed"
  /\ "error" \in logged /\ "qbittorrent_username" \in logged

(***************************************************************************)
(* C19: get_qbittorrent_port returns Ok(v) only for a reported listen_port *)
(* equal to v and within 0..65535, so no pass ends as already correct      *)
(* while the sink's reported listen_port differs from the source port.     *)
(***************************************************************************)
C19_AsClaimed ==
  /\ (current_port # NoPort) => (sinkSeen \in 0..U16Max /\ current_port = sinkSeen)
  /\ (outcome = "AlreadyCorrect") => sinkSeen = port

(***************************************************************************)
(* C20: eventual convergence.  If from some point on the source keeps      *)
(* reporting the same port p, nothing but the passes changes the sink, the *)
(* process keeps running and no remote call fails or hangs, then the       *)
(* sink's listening port is eventually p and stays p.                      *)
(***************************************************************************)
\* the loop is running, no peer hangs, no pass has failed and nobody else
\* has set the sink since the last pass started
Calm ==
  /\ mainPc \in LoopStates
  /\ ~hung
  /\ outcome \notin FailureOutcomes
  /\ ~sinkTouched

C20_AsClaimed ==
  \A p \in Ports : (<>[](sourcePort = p /\ Calm)) => <>[](sinkPort = p)

\* the same statement for a sink whose listening port is a 16-bit value
C20_InRange ==
  \A p \in Ports : (<>[](sourcePort = p /\ Calm /\ sinkPort \in Ports)) => <>[](sinkPort = p)
====
